---- MODULE Spec2Model ----
(***************************************************************************)
(* Model of src/script.js, the NIS2 exposure questionnaire: the step state *)
(* machine (goToStep, selectOption, validateStep3, goBack,                 *)
(* restartAssessment), the 300 ms timers selectOption schedules, and the   *)
(* tier calculator (calculateTier, generateResults,                        *)
(* calculateAndShowResults).                                               *)
(*                                                                         *)
(* A step of the model is one turn of the browser's event loop: one        *)
(* handler run to completion, or one expired timer callback.               *)
(***************************************************************************)
EXTENDS Integers, Sequences, FiniteSets, TLC

VARIABLES
    step,           \* state.step
    answers,        \* state.answers
    active,         \* the step views that carry the class 'active'
    selected,       \* per single-answer step, the card that carries 'selected'
    timers,         \* callbacks passed to setTimeout and not yet run, oldest first
    tierBadge,      \* tierBadge: its textContent and the tier class of its className
    resultContent,  \* resultContent.innerHTML, as the sections it renders
    last            \* history: the handler or callback that ran last, and state.step before it

vars == <<step, answers, active, selected, timers, tierBadge, resultContent, last>>

----------------------------------------------------------------------------
(* Bounds of the model. *)

\* setTimeout callbacks that may be pending at once
MaxPending == 2
\* handlers are called with step arguments 0..MaxArg
MaxArg == 7

StepArgs == 0..MaxArg

----------------------------------------------------------------------------
(* Data. *)

\* JavaScript null
Null == "null"

\* const steps: the step numbers whose view element exists
steps == {1, 2, 3, 4, 5}

NoFlags ==
    [cloud |-> FALSE, mfa |-> FALSE, incidentProcess |-> FALSE, supplyChain |-> FALSE]

\* state.answers as the script creates it, and as restartAssessment resets it
EmptyAnswers ==
    [entitySize |-> Null,
     serviceSensitivity |-> Null,
     digitalInfrastructure |-> NoFlags,
     governanceMaturity |-> Null]

\* The data-value of the option cards of each single-answer step view
\* (the enumerations of the AnswerSet).
Cards(s) ==
    CASE s = 1 -> {"small", "medium", "large"}
      [] s = 2 -> {"low", "medium", "high"}
      [] s = 4 -> {"none", "basic", "structured", "iso"}
      [] OTHER -> {}

\* Every assignment of the four checkboxes of step 3.
AllFlags ==
    [cloud : BOOLEAN, mfa : BOOLEAN, incidentProcess : BOOLEAN, supplyChain : BOOLEAN]

\* The values and checkbox assignments the state machine is driven with.
Inputs(s) ==
    CASE s = 1 -> {"small", "large"}
      [] s = 2 -> {"low", "high"}
      [] s = 4 -> {"none", "iso"}
      [] OTHER -> {"small"}

FlagInputs ==
    {f \in AllFlags : f.cloud = f.supplyChain /\ f.mfa = f.incidentProcess}

----------------------------------------------------------------------------
(* Tier calculator. *)

\* SizeWeight with 'small' tested explicitly and no weight for other values
SizeWeightNoFallback(entitySize) ==
    IF entitySize = "large" THEN 3
    ELSE IF entitySize = "medium" THEN 2
    ELSE IF entitySize = "small" THEN 1
    ELSE 0

\* calculateTier, lines 129-131
SizeWeight(entitySize) ==
    IF entitySize = "large" THEN 3
    ELSE IF entitySize = "medium" THEN 2
    ELSE 1

\* calculateTier, lines 135-137
SensitivityWeight(serviceSensitivity) ==
    IF serviceSensitivity = "high" THEN 3
    ELSE IF serviceSensitivity = "medium" THEN 2
    ELSE 1

\* InfraRisk with the test of mfa inverted
InfraRiskMfaInverted(digitalInfrastructure) ==
    (IF digitalInfrastructure.cloud THEN 1 ELSE 0)
    + (IF digitalInfrastructure.mfa THEN 2 ELSE 0)
    + (IF ~digitalInfrastructure.incidentProcess THEN 2 ELSE 0)
    + (IF digitalInfrastructure.supplyChain THEN 1 ELSE 0)

\* calculateTier, lines 140-144
InfraRisk(digitalInfrastructure) ==
    (IF digitalInfrastructure.cloud THEN 1 ELSE 0)
    + (IF ~digitalInfrastructure.mfa THEN 2 ELSE 0)
    + (IF ~digitalInfrastructure.incidentProcess THEN 2 ELSE 0)
    + (IF digitalInfrastructure.supplyChain THEN 1 ELSE 0)

\* Math.min
Min(a, b) == IF a <= b THEN a ELSE b

\* GovernanceModifier with the sign of the two mitigating levels lost
GovernanceModifierUnsigned(governanceMaturity) ==
    IF governanceMaturity = "none" THEN 2
    ELSE IF governanceMaturity = "basic" THEN 1
    ELSE IF governanceMaturity = "structured" THEN 1
    ELSE IF governanceMaturity = "iso" THEN 2
    ELSE 0

\* calculateTier, lines 150-154
GovernanceModifier(governanceMaturity) ==
    IF governanceMaturity = "none" THEN 2
    ELSE IF governanceMaturity = "basic" THEN 1
    ELSE IF governanceMaturity = "structured" THEN -1
    ELSE IF governanceMaturity = "iso" THEN -2
    ELSE 0

\* the local variable score of calculateTier when it reaches line 163
Score(a) ==
    SizeWeight(a.entitySize)
    + SensitivityWeight(a.serviceSensitivity)
    + Min(InfraRisk(a.digitalInfrastructure), 3)
    + GovernanceModifier(a.governanceMaturity)

\* Bucket with the High threshold compared strictly
BucketStrict(score) ==
    IF score > 6 THEN "tier-3"
    ELSE IF score >= 4 THEN "tier-2"
    ELSE "tier-1"

\* calculateTier, lines 163-165
Bucket(score) ==
    IF score >= 6 THEN "tier-3"
    ELSE IF score >= 4 THEN "tier-2"
    ELSE "tier-1"

\* calculateTier with score starting from state.step instead of 0
calculateTierFromStep(a) == Bucket(step + Score(a))

calculateTier(a) == Bucket(Score(a))

\* const tiers of generateResults; the four paragraphs are given by their
\* opening words, labels, titles and obligations in full (in ASCII).
tiers ==
    [x \in {"tier-1", "tier-2", "tier-3"} |->
        CASE x = "tier-1" ->
            [label |-> "Beperkte Blootstelling",
             title |-> "Niveau 1: Beperkte Reglementaire Blootstelling",
             implications |-> "Uw organisatie heeft een beperkte blootstelling",
             obligations |->
                <<"Basis veiligheidsverplichtingen volgens artikel 21 van de NIS2-richtlijn",
                  "Naleving van risicobeheersmaatregelen in verhouding tot uw grootte",
                  "Regelgevend toezicht via het Centrum voor Cybersecurity Belgie (CCB)">>,
             timeline |-> "De Belgische omzetting is van kracht sinds oktober 2024.",
             accountability |-> "Aansprakelijkheid van bestuurders omvat door algemeen recht.",
             positioning |-> "Kans om uw cyber governance geleidelijk te structureren"]
          [] x = "tier-2" ->
            [label |-> "Belangrijke Blootstelling",
             title |-> "Niveau 2: Belangrijke Entiteit - Versterkte Verplichtingen",
             implications |-> "Uw organisatie valt mogelijk onder de categorie Belangrijke Entiteit",
             obligations |->
                <<"Meldplicht significante incidenten aan CCB binnen 24 uur (artikel 23)",
                  "Implementatie van cyber risicobeheersmaatregelen (artikel 21)",
                  "Beveiliging van de toeleveringsketen (artikel 21)",
                  "Periodieke compliance audit en documentatie van maatregelen">>,
             timeline |-> "Onmiddellijke inwerkingtreding sinds Belgische omzetting oktober 2024.",
             accountability |-> "Versterkte aansprakelijkheid bestuurders.",
             positioning |-> "Snelle structurering van uw ISMS wordt aanbevolen"]
          [] x = "tier-3" ->
            [label |-> "Kritieke Blootstelling",
             title |-> "Niveau 3: Hoge Blootstelling - Prioritaire Compliance",
             implications |-> "Uw organisatie heeft een hoge blootstelling aan NIS2-verplichtingen",
             obligations |->
                <<"Verplichte 24u-melding aan CCB voor elk significant incident",
                  "Jaarlijkse compliance audit door geaccrediteerde derde partij",
                  "Strenge beveiligingsmaatregelen: toegangsbeheer, encryptie, MFA, continuiteitsplannen",
                  "Due diligence op kritieke leveranciers en toeleveringsketen",
                  "Verplichte documentatie van risicobeheersmaatregelen">>,
             timeline |-> "Onmiddellijke naleving vereist.",
             accountability |-> "Persoonlijke aansprakelijkheid bestuurders blootgesteld.",
             positioning |-> "NIS2-compliance is een strategische prioriteit."]]

\* generateResults, lines 221-222: the badge for a tier; className stands for
\* the class list 'tier-badge <tier>'.
Badge(tier) == [textContent |-> tiers[tier].label, className |-> tier]

\* the badge and the result container before any result is shown
NoBadge == [textContent |-> "", className |-> ""]
NoContent ==
    [title |-> "", implications |-> "", items |-> <<>>, timeline |-> "",
     accountability |-> "", positioning |-> ""]

\* Sections without the obligations list
SectionsWithoutList(tier) ==
    [title |-> tiers[tier].title,
     implications |-> tiers[tier].implications,
     items |-> <<>>,
     timeline |-> tiers[tier].timeline,
     accountability |-> tiers[tier].accountability,
     positioning |-> tiers[tier].positioning]

\* generateResults, lines 225-253: the five result sections, in order; the
\* obligations become one list item each, in the order of the table.
Sections(tier) ==
    [title |-> tiers[tier].title,
     implications |-> tiers[tier].implications,
     items |-> [i \in 1..Len(tiers[tier].obligations) |-> tiers[tier].obligations[i]],
     timeline |-> tiers[tier].timeline,
     accountability |-> tiers[tier].accountability,
     positioning |-> tiers[tier].positioning]

----------------------------------------------------------------------------
(* State machine. *)

Init ==
    /\ step = 1
    /\ answers = EmptyAnswers
    /\ active = {1}
    /\ selected = [s \in {1, 2, 4} |-> Null]
    /\ timers = <<>>
    /\ tierBadge = NoBadge
    /\ resultContent = NoContent
    /\ last = [op |-> "load", from |-> 1]

\* goToStep that records the target without testing that its view exists
goToStepUnchecked(stepNumber) ==
    /\ active' = IF stepNumber \in steps THEN {stepNumber} ELSE {}
    /\ step' = stepNumber

\* goToStep(stepNumber): every view loses 'active'; the target gets it and
\* becomes state.step only if its view exists.
goToStep(stepNumber) ==
    /\ active' = IF stepNumber \in steps THEN {stepNumber} ELSE {}
    /\ step' = IF stepNumber \in steps THEN stepNumber ELSE step

\* updateSelectionUI(step, value): the cards of the view whose data-value is
\* value get 'selected', all its other cards lose it.
updateSelectionUI(s, value) ==
    selected' = [selected EXCEPT ![s] = IF value \in Cards(s) THEN value ELSE Null]

\* selectOption whose step-2 branch records the answer but schedules no advance
selectOptionNoAdvance(s, value) ==
    /\ s \in {1, 2, 4} => Len(timers) < MaxPending
    /\ IF s = 1 THEN
            /\ answers' = [answers EXCEPT !.entitySize = value]
            /\ updateSelectionUI(1, value)
            /\ timers' = Append(timers, "goToStep(2)")
       ELSE IF s = 2 THEN
            /\ answers' = [answers EXCEPT !.serviceSensitivity = value]
            /\ updateSelectionUI(2, value)
            /\ timers' = timers
       ELSE IF s = 4 THEN
            /\ answers' = [answers EXCEPT !.governanceMaturity = value]
            /\ updateSelectionUI(4, value)
            /\ timers' = Append(timers, "calculateAndShowResults()")
       ELSE UNCHANGED <<answers, selected, timers>>
    /\ last' = [op |-> "selectOption", from |-> step]
    /\ UNCHANGED <<step, active, tierBadge, resultContent>>

\* selectOption(step, value)
selectOption(s, value) ==
    /\ s \in {1, 2, 4} => Len(timers) < MaxPending
    /\ IF s = 1 THEN
            /\ answers' = [answers EXCEPT !.entitySize = value]
            /\ updateSelectionUI(1, value)
            /\ timers' = Append(timers, "goToStep(2)")
       ELSE IF s = 2 THEN
            /\ answers' = [answers EXCEPT !.serviceSensitivity = value]
            /\ updateSelectionUI(2, value)
            /\ timers' = Append(timers, "goToStep(3)")
       ELSE IF s = 4 THEN
            /\ answers' = [answers EXCEPT !.governanceMaturity = value]
            /\ updateSelectionUI(4, value)
            /\ timers' = Append(timers, "calculateAndShowResults()")
       ELSE UNCHANGED <<answers, selected, timers>>
    /\ last' = [op |-> "selectOption", from |-> step]
    /\ UNCHANGED <<step, active, tierBadge, resultContent>>

\* validateStep3 that copies three of the four checkboxes
validateStep3WithoutSupplyChain(flags) ==
    /\ answers' = [answers EXCEPT !.digitalInfrastructure =
                      [flags EXCEPT !.supplyChain = answers.digitalInfrastructure.supplyChain]]
    /\ goToStep(4)
    /\ last' = [op |-> "validateStep3", from |-> step]
    /\ UNCHANGED <<selected, timers, tierBadge, resultContent>>

\* validateStep3(), with flags the checked property of the four checkboxes
validateStep3(flags) ==
    /\ answers' = [answers EXCEPT !.digitalInfrastructure = flags]
    /\ goToStep(4)
    /\ last' = [op |-> "validateStep3", from |-> step]
    /\ UNCHANGED <<selected, timers, tierBadge, resultContent>>

\* goBack that also discards the answer of the step it returns to
goBackDiscarding(currentStep) ==
    /\ IF currentStep > 1 THEN goToStep(currentStep - 1)
       ELSE UNCHANGED <<step, active>>
    /\ answers' =
         IF currentStep = 2 THEN [answers EXCEPT !.entitySize = Null]
         ELSE IF currentStep = 3 THEN [answers EXCEPT !.serviceSensitivity = Null]
         ELSE IF currentStep = 4 THEN [answers EXCEPT !.digitalInfrastructure = NoFlags]
         ELSE IF currentStep = 5 THEN [answers EXCEPT !.governanceMaturity = Null]
         ELSE answers
    /\ last' = [op |-> "goBack", from |-> step]
    /\ UNCHANGED <<selected, timers, tierBadge, resultContent>>

\* goBack(currentStep)
goBack(currentStep) ==
    /\ IF currentStep > 1 THEN goToStep(currentStep - 1)
       ELSE UNCHANGED <<step, active>>
    /\ last' = [op |-> "goBack", from |-> step]
    /\ UNCHANGED <<answers, selected, timers, tierBadge, resultContent>>

\* calculateAndShowResults()
calculateAndShowResults ==
    /\ tierBadge' = Badge(calculateTier(answers))
    /\ resultContent' = Sections(calculateTier(answers))
    /\ goToStep(5)

\* restartAssessment that resets the three single answers but not the
\* checkbox answers
restartKeepingFlags ==
    /\ answers' = [EmptyAnswers EXCEPT
                      !.digitalInfrastructure = answers.digitalInfrastructure]
    /\ selected' = [s \in {1, 2, 4} |-> Null]
    /\ goToStep(1)
    /\ last' = [op |-> "restartAssessment", from |-> step]
    /\ UNCHANGED <<timers, tierBadge, resultContent>>

\* restartAssessment()
restartAssessment ==
    /\ answers' = EmptyAnswers
    /\ selected' = [s \in {1, 2, 4} |-> Null]
    /\ goToStep(1)
    /\ last' = [op |-> "restartAssessment", from |-> step]
    /\ UNCHANGED <<timers, tierBadge, resultContent>>

\* The oldest pending setTimeout callback runs (all have the same delay, so
\* they run in the order they were scheduled).
TimerFires ==
    /\ timers # <<>>
    /\ timers' = Tail(timers)
    /\ CASE Head(timers) = "goToStep(2)" ->
                goToStep(2) /\ UNCHANGED <<tierBadge, resultContent>>
         [] Head(timers) = "goToStep(3)" ->
                goToStep(3) /\ UNCHANGED <<tierBadge, resultContent>>
         [] Head(timers) = "calculateAndShowResults()" ->
                calculateAndShowResults
    /\ last' = [op |-> Head(timers), from |-> step]
    /\ UNCHANGED <<answers, selected>>

\* The handlers as the script exposes them: callable at any step, with any
\* step argument.
CallSelectOption == \E s \in StepArgs : \E value \in Inputs(s) : selectOption(s, value)
CallValidateStep3 == \E flags \in FlagInputs : validateStep3(flags)
CallGoBack == \E currentStep \in StepArgs : goBack(currentStep)
CallRestart == restartAssessment

Next ==
    \/ CallSelectOption
    \/ CallValidateStep3
    \/ CallGoBack
    \/ CallRestart
    \/ TimerFires

Spec == Init /\ [][Next]_vars

\* The handlers as the step views call them: the cards, the confirm button
\* and the back button of a view can be used only while that view is the
\* active one, and pass that view's step number; restart is always offered.
ViewSelect ==
    \E s \in active \cap {1, 2, 4} : \E value \in Cards(s) : selectOption(s, value)
ViewConfirm == 3 \in active /\ \E flags \in AllFlags : validateStep3(flags)
ViewBack == \E s \in active : s > 1 /\ goBack(s)
ViewRestart == restartAssessment

NextView ==
    \/ ViewSelect
    \/ ViewConfirm
    \/ ViewBack
    \/ ViewRestart
    \/ TimerFires

SpecView == Init /\ [][NextView]_vars

----------------------------------------------------------------------------
(* The tier calculator on its own: calculateAndShowResults is pending on an *)
(* arbitrary AnswerSet, unset and out-of-enum values included, at any step. *)

CalcValues(s) == Cards(s) \cup {Null, "other"} \cup (IF s = 4 THEN {"iso27001"} ELSE {})

CalcInputs ==
    [entitySize : CalcValues(1),
     serviceSensitivity : CalcValues(2),
     digitalInfrastructure : AllFlags,
     governanceMaturity : CalcValues(4)]

InitCalc ==
    /\ step \in steps
    /\ active = {step}
    /\ answers \in CalcInputs
    /\ selected =
         [s \in {1, 2, 4} |->
            LET v == CASE s = 1 -> answers.entitySize
                       [] s = 2 -> answers.serviceSensitivity
                       [] s = 4 -> answers.governanceMaturity
            IN IF v \in Cards(s) THEN v ELSE Null]
    /\ timers = <<"calculateAndShowResults()">>
    /\ tierBadge = NoBadge
    /\ resultContent = NoContent
    /\ last = [op |-> "selectOption", from |-> step]

SpecCalc == InitCalc /\ [][TimerFires]_vars

----------------------------------------------------------------------------
(* The machine with a delay of zero: each selection runs the callback it    *)
(* schedules at once.  Its states are the pairs of state.step and           *)
(* state.answers; it is driven the way the step views drive the script.     *)

ZeroDelayNext(z) ==
    (IF z.step = 1
       THEN {[step |-> 2, answers |-> [z.answers EXCEPT !.entitySize = v]] : v \in Cards(1)}
       ELSE {})
    \cup
    (IF z.step = 2
       THEN {[step |-> 3, answers |-> [z.answers EXCEPT !.serviceSensitivity = v]] : v \in Cards(2)}
       ELSE {})
    \cup
    (IF z.step = 3
       THEN {[step |-> 4, answers |-> [z.answers EXCEPT !.digitalInfrastructure = f]] : f \in AllFlags}
       ELSE {})
    \cup
    (IF z.step = 4
       THEN {[step |-> 5, answers |-> [z.answers EXCEPT !.governanceMaturity = v]] : v \in Cards(4)}
       ELSE {})
    \cup
    (IF z.step > 1 THEN {[step |-> z.step - 1, answers |-> z.answers]} ELSE {})
    \cup
    {[step |-> 1, answers |-> EmptyAnswers]}

RECURSIVE ZeroDelayClosure(_, _)
ZeroDelayClosure(seen, frontier) ==
    IF frontier = {} THEN seen
    ELSE LET new == (UNION {ZeroDelayNext(z) : z \in frontier}) \ seen
         IN ZeroDelayClosure(seen \cup new, new)

\* every (step, answers) the zero-delay machine reaches
ZeroDelayReach ==
    ZeroDelayClosure({[step |-> 1, answers |-> EmptyAnswers]},
                     {[step |-> 1, answers |-> EmptyAnswers]})

----------------------------------------------------------------------------
(* Claims. *)

\* the three required answers are recorded
Complete(a) ==
    /\ a.entitySize # Null
    /\ a.serviceSensitivity # Null
    /\ a.governanceMaturity # Null

\* C1: calculateTier is never invoked while entitySize, serviceSensitivity or
\* governanceMaturity is unset: whenever the callback that calculates the tier
\* has just run, and whenever step 5 is current, the three answers are set.
C1_TierNeverCalculatedOnUnsetAnswers ==
    (last.op = "calculateAndShowResults()" \/ step = 5) => Complete(answers)

\* C2: the delay is cosmetic: once no callback is pending, the current step
\* and the answers form a state the zero-delay machine reaches too.
C2_DelayHasNoEffect ==
    timers = <<>> => [step |-> step, answers |-> answers] \in ZeroDelayReach

\* C3: selectOption called for a step that is not the current one changes
\* neither the current step nor the answers, and schedules no advance.
C3_SelectForInactiveStepRejected ==
    [][\A s \in StepArgs : \A value \in Inputs(s) :
          (s # step /\ selectOption(s, value)) =>
              UNCHANGED <<step, answers, timers>>]_vars

\* C4: validateStep3 called while the current step is not 3 leaves the four
\* digitalInfrastructure booleans and the current step unchanged.
C4_ConfirmOutsideStep3Rejected ==
    [][\A flags \in FlagInputs :
          (step # 3 /\ validateStep3(flags)) =>
              UNCHANGED <<step, answers>>]_vars

\* C5: right after restartAssessment, whatever step it was called from, step 1
\* is current, the three categorical answers are unset and the four booleans
\* are false.
C5_RestartResets ==
    last.op = "restartAssessment" =>
        /\ step = 1
        /\ answers.entitySize = Null
        /\ answers.serviceSensitivity = Null
        /\ answers.governanceMaturity = Null
        /\ ~answers.digitalInfrastructure.cloud
        /\ ~answers.digitalInfrastructure.mfa
        /\ ~answers.digitalInfrastructure.incidentProcess
        /\ ~answers.digitalInfrastructure.supplyChain

\* C5 witness: restart has run from step 5, after a tier was shown for
\* recorded answers.
C5_Witness ==
    /\ last = [op |-> "restartAssessment", from |-> 5]
    /\ tierBadge.className \in DOMAIN tiers
    /\ step = 1

\* the reference computation of the tier: point tables, capped sub-score,
\* thresholds
RefSize == ("small" :> 1) @@ ("medium" :> 2) @@ ("large" :> 3)
RefSensitivity == ("low" :> 1) @@ ("medium" :> 2) @@ ("high" :> 3)
RefGovernance == ("none" :> 2) @@ ("basic" :> 1) @@ ("structured" :> -1) @@ ("iso" :> -2)
RefInt(b) == IF b THEN 1 ELSE 0
RefInfra(d) ==
    LET raw == RefInt(d.cloud) * 1 + RefInt(~d.mfa) * 2
               + RefInt(~d.incidentProcess) * 2 + RefInt(d.supplyChain) * 1
    IN IF raw > 3 THEN 3 ELSE raw
RefTotal(a) ==
    RefSize[a.entitySize] + RefSensitivity[a.serviceSensitivity]
    + RefInfra(a.digitalInfrastructure) + RefGovernance[a.governanceMaturity]
RefTier(total) ==
    CASE total >= 6 -> "tier-3"
      [] total >= 4 /\ total < 6 -> "tier-2"
      [] total < 4 -> "tier-1"

\* every categorical answer is one of its enumeration
Valid(a) ==
    /\ a.entitySize \in Cards(1)
    /\ a.serviceSensitivity \in Cards(2)
    /\ a.governanceMaturity \in Cards(4)

\* the three boundary cases
BoundaryLow ==
    [entitySize |-> "small", serviceSensitivity |-> "low",
     digitalInfrastructure |->
        [cloud |-> FALSE, mfa |-> TRUE, incidentProcess |-> TRUE, supplyChain |-> FALSE],
     governanceMaturity |-> "iso"]
BoundaryHigh ==
    [entitySize |-> "large", serviceSensitivity |-> "high",
     digitalInfrastructure |->
        [cloud |-> FALSE, mfa |-> FALSE, incidentProcess |-> FALSE, supplyChain |-> FALSE],
     governanceMaturity |-> "none"]
BoundaryMedium ==
    [entitySize |-> "medium", serviceSensitivity |-> "medium",
     digitalInfrastructure |->
        [cloud |-> FALSE, mfa |-> TRUE, incidentProcess |-> TRUE, supplyChain |-> FALSE],
     governanceMaturity |-> "basic"]

\* C6: on every AnswerSet over the enumerations, the tier calculateTier
\* returns (shown on the badge) is the tier of the reference computation and
\* its score is the reference total; the boundary cases total 0, 11 and 5 and
\* give Low, High and Medium.
C6_TierIsReferenceTier ==
    (last.op = "calculateAndShowResults()" /\ Valid(answers)) =>
        /\ Score(answers) = RefTotal(answers)
        /\ tierBadge.className = RefTier(RefTotal(answers))
        /\ answers = BoundaryLow =>
              Score(answers) = 0 /\ tierBadge.className = "tier-1"
        /\ answers = BoundaryHigh =>
              Score(answers) = 11 /\ tierBadge.className = "tier-3"
        /\ answers = BoundaryMedium =>
              Score(answers) = 5 /\ tierBadge.className = "tier-2"

\* C6 witness: the tier has been calculated on the boundary case that totals 5.
C6_Witness ==
    /\ last.op = "calculateAndShowResults()"
    /\ answers = BoundaryMedium
    /\ tierBadge.className = "tier-2"

\* C7: the governance modifier is -2 for 'iso' and for 'iso27001', and 0 for
\* any other unrecognized or unset value.
C7_IsoAliasesCountMinusTwo ==
    last.op = "calculateAndShowResults()" =>
        /\ answers.governanceMaturity \in {"iso", "iso27001"} =>
              GovernanceModifier(answers.governanceMaturity) = -2
        /\ answers.governanceMaturity \notin
                {"none", "basic", "structured", "iso", "iso27001"} =>
              GovernanceModifier(answers.governanceMaturity) = 0

\* C8: goBack called while step s in 2..5 is current makes s-1 current, and
\* called while step 1 is current changes nothing: the step it moves to is
\* decided by the current step.
C8_GoBackDecrementsCurrentStep ==
    last.op = "goBack" =>
        step = IF last.from \in 2..5 THEN last.from - 1 ELSE last.from

\* C9: goBack never changes the answers: across every step of the machine
\* that is a run of goBack, every field of state.answers keeps its value.
C9_GoBackKeepsAnswers ==
    [][last'.op = "goBack" => answers' = answers]_vars

\* C9 witness: goBack has moved from step 3 to step 2 and the answers of
\* steps 1 and 2 are still recorded.
C9_Witness ==
    /\ last = [op |-> "goBack", from |-> 3]
    /\ step = 2
    /\ answers.entitySize # Null
    /\ answers.serviceSensitivity # Null

\* the badge and the result content show one tier of the table, with its
\* obligations, of which there is at least one
OneTierShown ==
    /\ tierBadge.className \in {"tier-1", "tier-2", "tier-3"}
    /\ tierBadge.textContent = tiers[tierBadge.className].label
    /\ resultContent.title = tiers[tierBadge.className].title
    /\ resultContent.items = tiers[tierBadge.className].obligations
    /\ Len(resultContent.items) > 0

\* C10: completing steps 1-4 with valid answers ends at step 5 with exactly
\* one of the three tiers and its content, whose obligations list is not
\* empty: the calculation that completes step 4 always leaves step 5 current
\* with one tier and its content shown.
C10_CompletionShowsOneTier ==
    last.op = "calculateAndShowResults()" => (step = 5 /\ OneTierShown)

\* C10 witness: steps 1-4 were completed with valid answers and step 5 shows
\* the tier of those answers.
C10_Witness ==
    /\ last = [op |-> "calculateAndShowResults()", from |-> 4]
    /\ step = 5
    /\ Complete(answers) /\ Valid(answers)
    /\ tierBadge.className = calculateTier(answers)
    /\ tierBadge.className = "tier-2"


\* the severity order of the tiers
TierRank(tier) == CASE tier = "tier-1" -> 1 [] tier = "tier-2" -> 2 [] tier = "tier-3" -> 3

\* the tier has just been calculated on the current answers
Calculated == last.op = "calculateAndShowResults()"

\* C11: with every other answer fixed, the AnswerSet with mfa false scores at
\* least as much as the one with mfa true, and its tier is not lower: checked
\* on every calculated AnswerSet with mfa true against its copy with mfa false.
C11_DisablingMfaNeverLowersScore ==
    (Calculated /\ answers.digitalInfrastructure.mfa) =>
        LET off == [answers EXCEPT !.digitalInfrastructure.mfa = FALSE]
        IN /\ Score(off) >= Score(answers)
           /\ TierRank(calculateTier(off)) >= TierRank(tierBadge.className)

\* C11 witness: a tier was calculated with mfa true where disabling mfa
\* raises the score and the tier.
C11_Witness ==
    /\ Calculated
    /\ answers.digitalInfrastructure.mfa
    /\ Score([answers EXCEPT !.digitalInfrastructure.mfa = FALSE]) = Score(answers) + 2
    /\ tierBadge.className = "tier-2"
    /\ calculateTier([answers EXCEPT !.digitalInfrastructure.mfa = FALSE]) = "tier-3"

\* C12: with every other answer fixed, replacing governanceMaturity (none,
\* basic, structured, unset or unrecognized) by 'iso' never increases the
\* score and never raises the tier.
C12_IsoGovernanceNeverRaisesScore ==
    Calculated =>
        LET iso == [answers EXCEPT !.governanceMaturity = "iso"]
        IN /\ Score(iso) <= Score(answers)
           /\ TierRank(calculateTier(iso)) <= TierRank(tierBadge.className)

\* C12 witness: a tier was calculated with an unset governanceMaturity where
\* 'iso' lowers the score and the tier.
C12_Witness ==
    /\ Calculated
    /\ answers.governanceMaturity = Null
    /\ Score([answers EXCEPT !.governanceMaturity = "iso"]) = Score(answers) - 2
    /\ tierBadge.className = "tier-3"
    /\ calculateTier([answers EXCEPT !.governanceMaturity = "iso"]) = "tier-2"


\* C14: unset and out-of-enum answers are scored by the fallback, never
\* rejected: an entitySize other than large or medium and a
\* serviceSensitivity other than high or medium count 1 each, and the
\* calculation still completes with one of the three tiers shown at step 5.
C14_FallbackScoresLowestWeight ==
    Calculated =>
        /\ step = 5
        /\ tierBadge.className \in {"tier-1", "tier-2", "tier-3"}
        /\ answers.entitySize \notin {"large", "medium"} =>
              SizeWeight(answers.entitySize) = 1
        /\ answers.serviceSensitivity \notin {"high", "medium"} =>
              SensitivityWeight(answers.serviceSensitivity) = 1
        /\ ( /\ answers.entitySize \notin {"large", "medium"}
             /\ answers.serviceSensitivity \notin {"high", "medium"}
             /\ answers.governanceMaturity \in Cards(4) ) =>
              tierBadge.className =
                  RefTier(1 + 1 + RefInfra(answers.digitalInfrastructure)
                          + RefGovernance[answers.governanceMaturity])

\* C14 witness: a tier was calculated with entitySize unset and an
\* unrecognized serviceSensitivity.
C14_Witness ==
    /\ Calculated
    /\ answers.entitySize = Null
    /\ answers.serviceSensitivity = "other"
    /\ answers.governanceMaturity = "none"
    /\ tierBadge.className = "tier-3"


----------------------------------------------------------------------------
(* The tier calculator invoked twice on one AnswerSet: the first time from  *)
(* any step with nothing shown yet, the second time from step 5 with the    *)
(* first result shown.                                                      *)

InitRecalc ==
    /\ step \in steps
    /\ active = {step}
    /\ answers \in CalcInputs
    /\ selected =
         [s \in {1, 2, 4} |->
            LET v == CASE s = 1 -> answers.entitySize
                       [] s = 2 -> answers.serviceSensitivity
                       [] s = 4 -> answers.governanceMaturity
            IN IF v \in Cards(s) THEN v ELSE Null]
    /\ timers = <<"calculateAndShowResults()", "calculateAndShowResults()">>
    /\ tierBadge = NoBadge
    /\ resultContent = NoContent
    /\ last = [op |-> "selectOption", from |-> step]

SpecRecalc == InitRecalc /\ [][TimerFires]_vars

----------------------------------------------------------------------------
(* The script with its timers, driven by the step views: a callback passed  *)
(* to setTimeout is run once its delay has passed, so a pending callback    *)
(* does not wait forever.                                                   *)

ViewSelectInput ==
    \E s \in active \cap {1, 2, 4} : \E value \in Inputs(s) : selectOption(s, value)
ViewConfirmInput == 3 \in active /\ \E flags \in FlagInputs : validateStep3(flags)

NextFair ==
    \/ ViewSelectInput
    \/ ViewConfirmInput
    \/ ViewBack
    \/ ViewRestart
    \/ TimerFires

SpecFair == Init /\ [][NextFair]_vars /\ WF_vars(TimerFires)

\* the AnswerSet field a single-answer step records
Field(a, s) ==
    CASE s = 1 -> a.entitySize
      [] s = 2 -> a.serviceSensitivity
      [] s = 4 -> a.governanceMaturity

\* the callback a single-answer step schedules, and the step it makes current
Scheduled(s) ==
    CASE s = 1 -> "goToStep(2)"
      [] s = 2 -> "goToStep(3)"
      [] s = 4 -> "calculateAndShowResults()"
Target(callback) ==
    CASE callback = "goToStep(2)" -> 2
      [] callback = "goToStep(3)" -> 3
      [] callback = "calculateAndShowResults()" -> 5

Pending(callback) == \E i \in 1..Len(timers) : timers[i] = callback

\* C15: a selection at the active step s in {1, 2, 4} records the value in
\* the field of s and schedules the advance of s, and every scheduled advance
\* eventually runs: step s+1 becomes current for s in {1, 2}, and for s = 4
\* the tier of the answers is calculated and shown and step 5 becomes current.
C15_SelectionRecordsAndAdvances ==
    /\ [][\A s \in {1, 2, 4} : \A value \in Inputs(s) :
             (s = step /\ selectOption(s, value)) =>
                 /\ Field(answers', s) = value
                 /\ timers' = Append(timers, Scheduled(s))]_vars
    /\ \A s \in {1, 2, 4} :
          Pending(Scheduled(s)) ~>
              ( /\ last.op = Scheduled(s)
                /\ step = Target(Scheduled(s))
                /\ s = 4 => tierBadge = Badge(calculateTier(answers)) )

\* C15 witness: the selection made at step 4 was followed by the calculation
\* and step 5 is current.
C15_Witness ==
    /\ last = [op |-> "calculateAndShowResults()", from |-> 4]
    /\ step = 5
    /\ Complete(answers)
    /\ timers = <<>>
    /\ tierBadge = Badge(calculateTier(answers))


\* C16: step 5 is entered by an atomic handoff: the step that makes step 5
\* current installs the badge and the content of the tier calculateTier gives
\* for the answers of that moment, and while step 5 stays current that badge
\* and that content stay, so at step 5 they always are of one and the same
\* tier.
C16_Step5ShowsTierOfEntry ==
    [][ /\ (step' = 5 /\ (step # 5 \/ Calculated')) =>
              /\ tierBadge' = Badge(calculateTier(answers))
              /\ resultContent' = Sections(calculateTier(answers))
        /\ (step = 5 /\ step' = 5 /\ ~Calculated') =>
              UNCHANGED <<tierBadge, resultContent>>
        /\ step' = 5 =>
              /\ tierBadge'.className \in {"tier-1", "tier-2", "tier-3"}
              /\ resultContent' = Sections(tierBadge'.className) ]_vars


\* C17: exactly one step view is active at a time, and it is the view of
\* state.step.
C17_ExactlyOneActiveView ==
    Cardinality(active) = 1 /\ active = {step}


\* C18: at step 3, validateStep3 accepts each of the 16 assignments of the
\* four checkboxes, all false included: one step installs exactly the
\* supplied cloud, mfa, incidentProcess and supplyChain and makes step 4
\* current; such a step leaves entitySize, serviceSensitivity and
\* governanceMaturity unchanged.
C18_ConfirmReplacesAllFlags ==
    /\ [](step = 3 =>
            \A flags \in AllFlags :
                ENABLED ( /\ validateStep3(flags)
                          /\ answers'.digitalInfrastructure = flags
                          /\ step' = 4 ))
    /\ [][(step = 3 /\ last'.op = "validateStep3") =>
              /\ step' = 4
              /\ answers'.digitalInfrastructure \in AllFlags
              /\ answers'.entitySize = answers.entitySize
              /\ answers'.serviceSensitivity = answers.serviceSensitivity
              /\ answers'.governanceMaturity = answers.governanceMaturity]_vars

\* C18 witness: step 3 was confirmed with all four boxes unchecked, and
\* step 4 is current with the three single answers still recorded.
C18_Witness ==
    /\ last = [op |-> "validateStep3", from |-> 3]
    /\ step = 4
    /\ answers.digitalInfrastructure = NoFlags
    /\ answers.entitySize # Null
    /\ answers.serviceSensitivity # Null
    /\ answers.governanceMaturity # Null

\* C19: state.step is an integer in 1..5 in every reachable state, whatever
\* argument goBack passes on to goToStep.
C19_StepInRange ==
    step \in 1..5

\* C19 witness: goBack was called with an argument whose target has no step
\* view (no view is active afterwards) and state.step kept its value.
C19_Witness ==
    /\ last.op = "goBack"
    /\ active = {}
    /\ step = last.from
    /\ step \in 1..5

====
